---- MODULE Spec2Model ----
(***************************************************************************)
(* Model of app/models/metadata/metadata_factory.py: the conversion of a   *)
(* deserialized About.xml tree into a mod record and its rule set.         *)
(*                                                                         *)
(* Python values are tagged records [t, v]:                                *)
(*   str   v = the characters, a sequence of one-character strings         *)
(*   list  v = the elements, a sequence of values                          *)
(*   dict  v = the items in iteration order, a sequence of <<key, value>>  *)
(*   none / false   v = <<>>                                               *)
(* mod_data itself is a function from the field names the factory reads to *)
(* the value stored there, or Absent when the key is missing.              *)
(***************************************************************************)
EXTENDS Naturals, Sequences, FiniteSets, TLC

VARIABLES
    op,              \* the entry point this run exercises
    pc,              \* position inside that entry point
    mod_data,        \* the descriptor tree handed to the factory
    target_version,  \* the target RimWorld version string
    xml,             \* what xml_path_to_json did for this descriptor
    mod,             \* the record under construction
    ret,             \* how the entry point ended
    ran,             \* the builders that have been entered so far
    rules,           \* the BaseRules under construction
    mv_input,        \* match_version: the mapping
    stop_at_first,   \* match_version: the mode
    cset,            \* a CaseInsensitiveSet
    cother,          \* a second CaseInsensitiveSet, built from case variants
    clabels,         \* the labels cset has been fed, in order
    csteps           \* number of add / discard calls made on cset

vars == <<op, pc, mod_data, target_version, xml, mod, ret, ran, rules,
          mv_input, stop_at_first, cset, cother, clabels, csteps>>

---------------------------------------------------------------------------
(* Python values *)

Str(s) == [t |-> "str", v |-> s]
Lst(s) == [t |-> "list", v |-> s]
Dct(s) == [t |-> "dict", v |-> s]
PyNone == [t |-> "none", v |-> <<>>]
PyFalse == [t |-> "false", v |-> <<>>]
Absent == [t |-> "absent", v |-> <<>>]

IsStr(x) == x.t = "str"
IsList(x) == x.t = "list"
IsDict(x) == x.t = "dict"

\* Python truthiness: empty str / list / dict, None and False are falsy.
Truthy(x) == x.t \in {"str", "list", "dict"} /\ Len(x.v) > 0

DictKeys(d) == {d.v[i][1] : i \in 1..Len(d.v)}
DictHas(d, k) == k \in DictKeys(d)
DictGet(d, k) == d.v[CHOOSE i \in 1..Len(d.v) : d.v[i][1] = k][2]

\* mod_data.get(key, default)
Get(d, key, default) == IF d[key] = Absent THEN default ELSE d[key]

Range(s) == {s[i] : i \in 1..Len(s)}

---------------------------------------------------------------------------
(* Characters and strings *)

LowerChar(c) ==
    CASE c = "A" -> "a" [] c = "B" -> "b" [] c = "C" -> "c" [] c = "D" -> "d"
      [] c = "E" -> "e" [] c = "F" -> "f" [] c = "G" -> "g" [] c = "H" -> "h"
      [] c = "I" -> "i" [] c = "J" -> "j" [] c = "K" -> "k" [] c = "L" -> "l"
      [] c = "M" -> "m" [] c = "N" -> "n" [] c = "O" -> "o" [] c = "P" -> "p"
      [] c = "Q" -> "q" [] c = "R" -> "r" [] c = "S" -> "s" [] c = "T" -> "t"
      [] c = "U" -> "u" [] c = "V" -> "v" [] c = "W" -> "w" [] c = "X" -> "x"
      [] c = "Y" -> "y" [] c = "Z" -> "z" [] OTHER -> c

\* str.lower()
Lower(s) == [i \in 1..Len(s) |-> LowerChar(s[i])]

\* needle in haystack, for str
Contains(haystack, needle) ==
    \E i \in 0..Len(haystack) :
        /\ i + Len(needle) <= Len(haystack)
        /\ SubSeq(haystack, i + 1, i + Len(needle)) = needle

StartsWith(s, prefix) ==
    Len(s) >= Len(prefix) /\ SubSeq(s, 1, Len(prefix)) = prefix

\* str.split(sep) for a one-character separator
RECURSIVE SplitFrom(_, _, _)
SplitFrom(s, sep, cur) ==
    IF s = <<>> THEN <<cur>>
    ELSE IF Head(s) = sep THEN <<cur>> \o SplitFrom(Tail(s), sep, <<>>)
    ELSE SplitFrom(Tail(s), sep, Append(cur, Head(s)))

Split(s, sep) == SplitFrom(s, sep, <<>>)

\* The characters of a decimal literal int() accepts here: digits only.
Digits == <<"0", "1", "2", "3", "4", "5", "6", "7", "8", "9">>

DigitValue(c) == (CHOOSE i \in 1..10 : Digits[i] = c) - 1

IsIntLiteral(s) == Len(s) > 0 /\ \A i \in 1..Len(s) : s[i] \in Range(Digits)

\* int(s) for a digit string
RECURSIVE ParseInt(_)
ParseInt(s) ==
    IF s = <<>> THEN 0
    ELSE 10 * ParseInt(SubSeq(s, 1, Len(s) - 1)) + DigitValue(s[Len(s)])

\* str(n) for n >= 0
RECURSIVE IntToStr(_)
IntToStr(n) ==
    IF n < 10 THEN <<Digits[n + 1]>>
    ELSE Append(IntToStr(n \div 10), Digits[(n % 10) + 1])

PyInt(n) == [t |-> "int", v |-> n]

---------------------------------------------------------------------------
(* metadata_structure: identifiers *)

\* CaseInsensitiveStr that keeps the value as written
CaseInsensitiveStr_Verbatim(s) == s

\* CaseInsensitiveStr(value): its string form is the lowercased value
\* (str(CaseInsensitiveStr("TestPackage")) == "testpackage").
CaseInsensitiveStr(s) == Lower(s)

\* CaseInsensitiveStr.__eq__ with another string
CaseInsensitiveEq(a, b) == Lower(a) = Lower(b)

---------------------------------------------------------------------------
(* value_extractor and match_version *)

K_text == <<"#", "t", "e", "x", "t">>
K_ignore == <<"@", "I", "g", "n", "o", "r", "e", "I", "f", "N", "o", "M", "a", "t", "c",
             "h", "i", "n", "g", "F", "i", "e", "l", "d">>
K_li == <<"l", "i">>
K_packageId == <<"p", "a", "c", "k", "a", "g", "e", "I", "d">>
K_displayName == <<"d", "i", "s", "p", "l", "a", "y", "N", "a", "m", "e">>
K_workshopUrl == <<"w", "o", "r", "k", "s", "h", "o", "p", "U", "r", "l">>

RECURSIVE value_extractor(_)
value_extractor(input) ==
    IF IsStr(input) THEN input
    ELSE IF IsList(input) THEN Lst(input.v)
    ELSE IF IsDict(input) THEN
        IF Len(input.v) = 1 THEN value_extractor(input.v[1][2])
        ELSE IF DictKeys(input) = {K_ignore, K_text} THEN DictGet(input, K_text)
        ELSE input
    ELSE PyNone

\* target_version.split(".") has at least two components
WellFormedTarget(tv) == Len(Split(tv, ".")) >= 2

\* rf"v{major}\.{minor}": for digit components the pattern is this literal text
VersionRegex(tv) ==
    LET parts == Split(tv, ".")
    IN  <<"v">> \o parts[1] \o <<".">> \o parts[2]

\* ReMatch as re.fullmatch would decide it
ReMatch_Full(pattern, key) == key = pattern

\* re.match(version_regex, key): anchored at the start of key only
ReMatch(pattern, key) == StartsWith(key, pattern)

\* the for loop of match_version over input.items(), from item i on
RECURSIVE MatchLoop(_, _, _, _, _)
MatchLoop(items, pattern, stop, i, results) ==
    IF i > Len(items) THEN
        IF results = <<>> THEN [found |-> FALSE, values |-> PyNone]
        ELSE [found |-> TRUE, values |-> Lst(results)]
    ELSE IF ReMatch(pattern, items[i][1]) THEN
        IF stop THEN [found |-> TRUE, values |-> Lst(<<items[i][2]>>)]
        ELSE MatchLoop(items, pattern, stop, i + 1, Append(results, items[i][2]))
    ELSE MatchLoop(items, pattern, stop, i + 1, results)

match_version(input, tv, stop) ==
    MatchLoop(input.v, VersionRegex(tv), stop, 1, <<>>)

---------------------------------------------------------------------------
(* metadata_structure: CaseInsensitiveSet, held as the set of the folded   *)
(* forms of its members                                                    *)

CISetAdd(set, item) == set \cup {CaseInsensitiveStr(item)}

CISetDiscard(set, item) == set \ {CaseInsensitiveStr(item)}

CISetContains(set, item) == CaseInsensitiveStr(item) \in set

CISetLen(set) == Cardinality(set)

CISetAnd(a, b) == a \cap b

\* CaseInsensitiveSet(iterable): add every item in turn
RECURSIVE CISetFrom(_)
CISetFrom(items) ==
    IF items = <<>> THEN {}
    ELSE CISetAdd(CISetFrom(SubSeq(items, 1, Len(items) - 1)), items[Len(items)])

\* CaseInsensitiveSet(load) over extracted values: an element that is not a
\* string (a list or dict, which is neither hashable nor has lower()) raises.
NewCaseInsensitiveSet(values) ==
    IF \A i \in 1..Len(values) : IsStr(values[i])
    THEN [kind |-> "ok", set |-> CISetFrom([i \in 1..Len(values) |-> values[i].v])]
    ELSE [kind |-> "raise", set |-> {}]

---------------------------------------------------------------------------
(* create_mod_dependency and create_base_rules *)

DictGetOr(d, k, default) == IF DictHas(d, k) THEN DictGet(d, k) ELSE default

NewDependencyMod == [package_id |-> PyNone, name |-> PyNone, workshop_url |-> PyNone]

create_mod_dependency(input_dict) ==
    LET package_id == DictGetOr(input_dict, K_packageId, PyFalse)
        name == DictGetOr(input_dict, K_displayName, PyFalse)
        workshop_url == DictGetOr(input_dict, K_workshopUrl, PyFalse)
    IN  [package_id |-> IF IsStr(package_id)
                        THEN Str(CaseInsensitiveStr(package_id.v))
                        ELSE NewDependencyMod.package_id,
         name |-> IF IsStr(name) THEN name ELSE NewDependencyMod.name,
         workshop_url |-> IF IsStr(workshop_url) THEN workshop_url
                          ELSE NewDependencyMod.workshop_url]

\* value if isinstance(value, list) else [value]
AsList(value) == IF IsList(value) THEN value.v ELSE <<value>>

\* entries of `key`, then the nodes match_version selects under `by_key`
WithVersioned(md, key, by_key, tv) ==
    LET plain == AsList(value_extractor(Get(md, key, Lst(<<>>))))
        versioned == value_extractor(Get(md, by_key, Dct(<<>>)))
    IN  IF IsDict(versioned)
        THEN LET matched == match_version(versioned, tv, FALSE).values
             IN  IF Truthy(matched) THEN plain \o matched.v ELSE plain
        ELSE plain

\* match_version is entered (and unpacks the target) iff the ByVersion value is a dict
CallsMatchVersion(md, by_key) ==
    IsDict(value_extractor(Get(md, by_key, Dct(<<>>))))

ModDependencies(md, tv) ==
    WithVersioned(md, "modDependencies", "modDependenciesByVersion", tv)

\* AddDependency without the duplicate test: a later entry replaces an earlier one
AddDependency_LastWins(deps, dep) ==
    IF \E i \in 1..Len(deps) : deps[i][1] = dep.package_id
    THEN [i \in 1..Len(deps) |->
             IF deps[i][1] = dep.package_id THEN <<dep.package_id, dep>> ELSE deps[i]]
    ELSE Append(deps, <<dep.package_id, dep>>)

\* rules.dependencies[dep.package_id] = dep, unless the key is already there
AddDependency(deps, dep) ==
    IF \E i \in 1..Len(deps) : deps[i][1] = dep.package_id
    THEN deps
    ELSE Append(deps, <<dep.package_id, dep>>)

\* the for loop over mod_dependencies, from entry i on
RECURSIVE DependencyLoop(_, _, _)
DependencyLoop(entries, i, deps) ==
    IF i > Len(entries) THEN deps
    ELSE IF IsDict(entries[i])
         THEN DependencyLoop(entries, i + 1,
                             AddDependency(deps, create_mod_dependency(entries[i])))
         ELSE DependencyLoop(entries, i + 1, deps)

\* the list load_operations hands to CaseInsensitiveSet
LoadList(md, key, by_key, force_key, tv) ==
    WithVersioned(md, key, by_key, tv)
        \o AsList(value_extractor(Get(md, force_key, Lst(<<>>))))

load_operations(md, key, by_key, force_key, tv) ==
    NewCaseInsensitiveSet(LoadList(md, key, by_key, force_key, tv))

IncompatibleWith(md, tv) ==
    NewCaseInsensitiveSet(
        WithVersioned(md, "incompatibleWith", "incompatibleWithByVersion", tv))

NewBaseRules ==
    [dependencies |-> <<>>, load_before |-> {}, load_after |-> {},
     incompatible_with |-> {}]

---------------------------------------------------------------------------
(* app.utils.constants: the official-content table, keyed by app id *)

S_294100 == <<"2", "9", "4", "1", "0", "0">>
S_1149640 == <<"1", "1", "4", "9", "6", "4", "0">>
S_rimworld == <<"l", "u", "d", "e", "o", "n", ".", "r", "i", "m", "w", "o", "r", "l", "d">>
S_royalty == S_rimworld \o <<".", "r", "o", "y", "a", "l", "t", "y">>
S_RimWorldName == <<"R", "i", "m", "W", "o", "r", "l", "d">>
S_RoyaltyName == <<"R", "o", "y", "a", "l", "t", "y">>
S_BaseGame == <<"B", "a", "s", "e", " ", "g", "a", "m", "e">>
S_RoyaltyDlc == <<"R", "o", "y", "a", "l", "t", "y", " ", "D", "L", "C">>

RIMWORLD_DLC_METADATA ==
    (S_294100 :> [packageid |-> S_rimworld, name |-> S_RimWorldName,
                  description |-> S_BaseGame])
    @@ (S_1149640 :> [packageid |-> S_royalty, name |-> S_RoyaltyName,
                      description |-> S_RoyaltyDlc])

\* key in get_dlc_packageid_appid_map()
InDlcMap(package_id) ==
    \E appid \in DOMAIN RIMWORLD_DLC_METADATA :
        RIMWORLD_DLC_METADATA[appid].packageid = package_id

\* get_dlc_packageid_appid_map()[key]
DlcAppId(package_id) ==
    CHOOSE appid \in DOMAIN RIMWORLD_DLC_METADATA :
        RIMWORLD_DLC_METADATA[appid].packageid = package_id

---------------------------------------------------------------------------
(* metadata_structure: the record classes *)

S_default == <<"d", "e", "f", "a", "u", "l", "t">>
S_ludeon_dot == <<"l", "u", "d", "e", "o", "n", ".">>
S_UnknownLudeon == <<"U", "n", "k", "n", "o", "w", "n", " ", "L", "u", "d", "e", "o", "n",
                     " ", "m", "o", "d">>

NoRules == [dependencies |-> <<>>, load_before |-> {}, load_after |-> {},
            incompatible_with |-> {}, unset |-> TRUE]

\* cls(): every field at its default, valid = True
NewMod(cls) ==
    [cls |-> cls, package_id |-> S_default, name |-> S_default,
     description |-> S_default, authors |-> <<>>, supported_versions |-> {},
     valid |-> TRUE, steam_app_id |-> PyNone, mod_version |-> PyNone,
     mod_icon_path |-> PyNone, url |-> PyNone, about_rules |-> NoRules,
     mod_path |-> PyNone]

\* ListedMod(valid=False)
InvalidListedMod == [NewMod("ListedMod") EXCEPT !.valid = FALSE]

\* LudeonMod(**vars(mod), steam_app_id=n)
LudeonMod(m, n) == [m EXCEPT !.cls = "LudeonMod", !.steam_app_id = PyInt(n)]

IsLudeonMod(m) == m.cls = "LudeonMod"

---------------------------------------------------------------------------
(* _parse_required, statement group by statement group *)

_set_mod_invalid(m) == [m EXCEPT !.valid = FALSE]

\* value_extractor(mod_data.get(key, False))
Field(md, key) == value_extractor(Get(md, key, PyFalse))

StepPackageId(md, m) ==
    LET package_id == Field(md, "packageId")
    IN  IF IsStr(package_id)
        THEN [m EXCEPT !.package_id = CaseInsensitiveStr(package_id.v)]
        ELSE _set_mod_invalid(m)

\* int(steam_app_id) succeeds
SteamAppIdParses(md) ==
    LET steam_app_id == Field(md, "steamAppId")
    IN  IsStr(steam_app_id) /\ IsIntLiteral(steam_app_id.v)

StepLudeon(md, m) ==
    IF InDlcMap(m.package_id)
    THEN LET lm == LudeonMod(m, ParseInt(DlcAppId(m.package_id)))
             entry == RIMWORLD_DLC_METADATA[IntToStr(lm.steam_app_id.v)]
         IN  [lm EXCEPT !.name = entry.name, !.description = entry.description]
    ELSE IF Contains(m.package_id, S_ludeon_dot) /\ SteamAppIdParses(md)
    THEN [LudeonMod(m, ParseInt(Field(md, "steamAppId").v))
            EXCEPT !.description = S_UnknownLudeon, !.name = S_UnknownLudeon]
    ELSE m

StepName(md, m) ==
    LET name == Field(md, "name")
        package_id == Field(md, "packageId")
    IN  IF IsStr(name) THEN [m EXCEPT !.name = name.v]
        ELSE IF ~IsLudeonMod(m)
        THEN _set_mod_invalid(
                 IF IsStr(package_id) THEN [m EXCEPT !.name = m.package_id] ELSE m)
        ELSE m

StepDescription(md, m) ==
    LET description == Field(md, "description")
    IN  IF IsStr(description) THEN [m EXCEPT !.description = description.v]
        ELSE IF ~IsLudeonMod(m) THEN _set_mod_invalid(m)
        ELSE m

\* what list.extend(x) appends: the elements of a list, the characters of a
\* str, the keys of a dict
Iterate(x) ==
    IF IsList(x) THEN x.v
    ELSE IF IsStr(x) THEN [i \in 1..Len(x.v) |-> Str(<<x.v[i]>>)]
    ELSE IF IsDict(x) THEN [i \in 1..Len(x.v) |-> Str(x.v[i][1])]
    ELSE <<>>

StepAuthors(md, m) ==
    LET author == Field(md, "author")
        authors == Field(md, "authors")
        one == IF IsStr(author) THEN Append(m.authors, author) ELSE m.authors
        all == IF Truthy(authors) THEN one \o Iterate(authors) ELSE one
        m2 == [m EXCEPT !.authors = all]
    IN  IF ~(Truthy(author) \/ Truthy(authors)) /\ ~IsLudeonMod(m)
        THEN _set_mod_invalid(m2)
        ELSE m2

\* set(supported_versions) raises TypeError on an unhashable element
SupportedVersionsRaises(md) ==
    LET supported_versions == Field(md, "supportedVersions")
    IN  /\ IsList(supported_versions)
        /\ \E i \in 1..Len(supported_versions.v) :
               supported_versions.v[i].t \in {"list", "dict"}

StepSupportedVersions(md, m) ==
    LET supported_versions == Field(md, "supportedVersions")
    IN  IF IsList(supported_versions)
        THEN [m EXCEPT !.supported_versions = Range(supported_versions.v)]
        ELSE IF IsStr(supported_versions)
        THEN [m EXCEPT !.supported_versions = {supported_versions}]
        ELSE IF ~IsLudeonMod(m) THEN _set_mod_invalid(m)
        ELSE m

\* _parse_required(mod_data, mod) as a whole, when it returns
_parse_required(md, m) ==
    StepSupportedVersions(md,
        StepAuthors(md,
            StepDescription(md,
                StepName(md,
                    StepLudeon(md,
                        StepPackageId(md, m))))))

\* the three optional fields of _parse_optional
StepOptional(md, m) ==
    LET mod_version == Field(md, "modVersion")
        mod_icon_path == Field(md, "modIconPath")
        url == Field(md, "url")
        keep(x, old) == IF Truthy(x) /\ IsStr(x) THEN x ELSE old
    IN  [m EXCEPT !.mod_version = keep(mod_version, @),
                  !.mod_icon_path = keep(mod_icon_path, @),
                  !.url = keep(url, @)]

\* create_listed_mod: a record that is not a RuledMod is re-wrapped as one,
\* keeping its __dict__
AsRuledMod(m) == IF m.cls = "RuledMod" THEN m ELSE [m EXCEPT !.cls = "RuledMod"]

---------------------------------------------------------------------------
(* Bounded inputs *)

S_FooBar == <<"F", "o", "o", ".", "B", "a", "r">>
S_RimWorldCased == <<"L", "u", "d", "e", "o", "n", ".", "R", "i", "m", "W", "o", "r", "l", "d">>
S_LudeonX == <<"L", "u", "d", "e", "o", "n", ".", "x">>
S_Nm == <<"N", "m">>
S_Ds == <<"D", "s">>
S_Bob == <<"B", "o", "b">>
S_Al == <<"A", "l">>
S_Cy == <<"C", "y">>
S_15 == <<"1", ".", "5">>
S_14 == <<"1", ".", "4">>
S_152 == <<"1", ".", "5", ".", "2">>
S_NoDot == <<"1", "5">>
S_123 == <<"1", "2", "3">>
S_12a == <<"1", "2", "a">>
S_A == <<"A">>
S_a == <<"a">>
S_B == <<"B">>
S_C == <<"C">>
S_D == <<"D">>
S_E == <<"E">>
S_Foo == <<"F", "o", "o">>
S_foo == <<"f", "o", "o">>
S_FOO == <<"F", "O", "O">>
S_Bar == <<"B", "a", "r">>
S_F1 == <<"F", "1">>
S_F2 == <<"F", "2">>
S_Url == <<"u", "r", "l">>
L_v15 == <<"v", "1", ".", "5">>
L_v15x == <<"v", "1", ".", "5", "-", "x">>
L_v150 == <<"v", "1", ".", "5", "0">>
L_v14 == <<"v", "1", ".", "4">>
L_15 == <<"1", ".", "5">>
L_xv15 == <<"x", "v", "1", ".", "5">>

\* <tag><li>..</li></tag> as the deserializer delivers it
Li(x) == Dct(<< <<K_li, x>> >>)

\* an element carrying an attribute: {"@MayRequire": .., "#text": ..}
Attributed(text) ==
    Dct(<< <<<<"@", "M", "a", "y", "R", "e", "q", "u", "i", "r", "e">>, Str(S_Bar)>>,
           <<K_text, Str(text)>> >>)

Fields ==
    {"packageId", "steamAppId", "name", "description", "author", "authors",
     "supportedVersions", "modVersion", "modIconPath", "url",
     "modDependencies", "modDependenciesByVersion",
     "loadBefore", "loadBeforeByVersion", "forceLoadBefore",
     "loadAfter", "loadAfterByVersion", "forceLoadAfter",
     "incompatibleWith", "incompatibleWithByVersion"}

Blank == [f \in Fields |-> Absent]

PackageIdNodes ==
    {Absent, Str(S_FooBar), Li(Str(S_FooBar)), Str(S_rimworld), Str(S_royalty),
     Str(S_RimWorldCased), Attributed(S_FooBar)}

NameNodes == {Absent, Str(S_Nm), Lst(<<Str(S_Nm)>>)}

DescriptionNodes == {Absent, Str(S_Ds)}

AuthorNodes == {Absent, Str(S_Bob), Li(Lst(<<Str(S_Al), Str(S_Cy)>>)), Str(<<>>)}

AuthorsNodes ==
    {Absent, Li(Lst(<<Str(S_Al), Str(S_Cy)>>)), Li(Str(S_Bob)), Attributed(S_Bob)}

SupportedVersionsNodes ==
    {Absent, Str(S_15), Li(Str(S_15)), Li(Lst(<<Str(S_15), Str(S_14)>>)),
     Li(Lst(<<Str(S_15), Attributed(S_14)>>)), Attributed(S_15)}

\* descriptors that vary the required fields
RequiredDescriptors ==
    {[packageId |-> p, name |-> n, description |-> d, author |-> a,
      authors |-> au, supportedVersions |-> sv] @@ Blank :
        p \in PackageIdNodes, n \in NameNodes, d \in DescriptionNodes,
        a \in AuthorNodes, au \in AuthorsNodes, sv \in SupportedVersionsNodes}

\* descriptors whose packageId looks like official content but is not in the table
SuspectedLudeonDescriptors ==
    {[packageId |-> Str(S_LudeonX), steamAppId |-> s, name |-> n,
      description |-> d, author |-> a, supportedVersions |-> sv] @@ Blank :
        s \in {Absent, Str(S_123), Str(S_12a), Lst(<<Str(S_123)>>)},
        n \in NameNodes, d \in DescriptionNodes,
        a \in {Absent, Str(S_Bob)}, sv \in {Absent, Str(S_15)}}

DepFoo == Dct(<< <<K_packageId, Str(S_Foo)>>, <<K_displayName, Str(S_F1)>> >>)
Depfoo == Dct(<< <<K_packageId, Str(S_foo)>>, <<K_displayName, Str(S_F2)>>,
                 <<K_workshopUrl, Str(S_Url)>> >>)
DepFOO == Dct(<< <<K_packageId, Str(S_FOO)>>, <<K_workshopUrl, Str(S_Url)>> >>)
DepBar == Dct(<< <<K_packageId, Str(S_Bar)>>, <<K_displayName, Lst(<<>>)>> >>)
DepNoId == Dct(<< <<K_displayName, Str(S_F1)>>, <<K_workshopUrl, Str(S_Url)>> >>)
DepOnlyId == Dct(<< <<K_packageId, Str(S_Foo)>> >>)

ModDependenciesNodes ==
    {Absent, Li(Lst(<<DepFoo, Depfoo>>)), Li(DepFoo),
     Li(Lst(<<Str(S_Foo), DepBar, DepNoId, DepOnlyId, DepFOO>>)), Li(DepOnlyId)}

ModDependenciesByVersionNodes ==
    {Absent,
     Dct(<< <<L_v15, Li(Lst(<<DepBar>>))>> >>),
     Dct(<< <<L_v14, Li(Lst(<<DepFoo>>))>>, <<L_v15, Li(Lst(<<DepBar, Depfoo>>))>> >>),
     Dct(<< <<L_v15, DepFOO>>, <<L_v14, DepBar>>, <<L_v15x, Depfoo>> >>)}

LoadNodes == {Absent, Lst(<<Str(S_A)>>), Li(Str(S_A)), Li(Lst(<<Str(S_A), Str(S_a)>>))}

LoadByVersionNodes ==
    {Absent,
     Dct(<< <<L_v15, Lst(<<Str(S_B)>>)>> >>),
     Dct(<< <<L_v14, Lst(<<Str(S_D)>>)>>, <<L_v15, Lst(<<Str(S_B)>>)>> >>),
     Dct(<< <<L_v14, Str(S_D)>>, <<L_v15, Str(S_B)>>, <<L_v15x, Str(S_E)>> >>)}

ForceLoadNodes == {Absent, Lst(<<Str(S_C)>>)}

\* loadAfter / loadAfterByVersion / forceLoadAfter, varied together
LoadAfterCombos ==
    {<<Absent, Absent, Absent>>,
     <<Lst(<<Str(S_A)>>), Dct(<< <<L_v15, Lst(<<Str(S_B)>>)>> >>), Lst(<<Str(S_C)>>)>>,
     <<Li(Str(S_a)), Dct(<< <<L_v14, Str(S_D)>>, <<L_v15, Str(S_B)>> >>), Absent>>}

\* incompatibleWith / incompatibleWithByVersion, varied together
IncompatibleCombos ==
    {<<Absent, Absent>>,
     <<Li(Lst(<<Str(S_A), Str(S_B)>>)), Dct(<< <<L_v14, Str(S_D)>>, <<L_v15, Str(S_a)>> >>)>>}

\* descriptors that vary the rule fields
RuleDescriptors ==
    {[modDependencies |-> md, modDependenciesByVersion |-> mdv,
      loadBefore |-> lb, loadBeforeByVersion |-> lbv, forceLoadBefore |-> flb,
      loadAfter |-> la[1], loadAfterByVersion |-> la[2], forceLoadAfter |-> la[3],
      incompatibleWith |-> iw[1], incompatibleWithByVersion |-> iw[2]] @@ Blank :
        md \in ModDependenciesNodes, mdv \in ModDependenciesByVersionNodes,
        lb \in LoadNodes, lbv \in LoadByVersionNodes, flb \in ForceLoadNodes,
        la \in LoadAfterCombos, iw \in IncompatibleCombos}

\* complete descriptors: every required field resolves; the optional and a few
\* rule fields vary
CompleteDescriptors ==
    {[packageId |-> Str(S_FooBar), name |-> Str(S_Nm), description |-> Str(S_Ds),
      author |-> Str(S_Bob), supportedVersions |-> Str(S_15),
      modVersion |-> o[1], modIconPath |-> o[2], url |-> o[3],
      modDependencies |-> md, loadBefore |-> lb, loadBeforeByVersion |-> lbv,
      forceLoadBefore |-> flb] @@ Blank :
        o \in {<<Absent, Absent, Absent>>, <<Str(S_15), Str(S_Url), Str(S_Url)>>,
               <<Lst(<<Str(S_15)>>), Str(<<>>), Li(Str(S_Url))>>},
        md \in {Absent, Li(Lst(<<DepFoo, Depfoo>>))},
        lb \in {Absent, Li(Lst(<<Str(S_A)>>))},
        lbv \in {Absent, Dct(<< <<L_v14, Lst(<<Str(S_D)>>)>>, <<L_v15, Lst(<<Str(S_B)>>)>> >>)},
        flb \in ForceLoadNodes}

TargetVersions == {S_15, S_152, S_NoDot}

\* what xml_path_to_json(path) did: raised, or returned a root that may lack
\* the "ModMetaData" entry, or whose entry may be empty
XmlOutcomes ==
    {[raises |-> TRUE, has_root |-> FALSE, falsy |-> FALSE],
     [raises |-> FALSE, has_root |-> FALSE, falsy |-> FALSE],
     [raises |-> FALSE, has_root |-> TRUE, falsy |-> TRUE],
     [raises |-> FALSE, has_root |-> TRUE, falsy |-> FALSE]}

XmlOk == [raises |-> FALSE, has_root |-> TRUE, falsy |-> FALSE]

MaxLabels == 3

MatchLabels == {L_v15, L_v15x, L_v150, L_v14, L_15, L_xv15}

\* sequences of distinct labels, each mapped to a node of its own
RECURSIVE LabelSeqs(_)
LabelSeqs(n) ==
    IF n = 0 THEN {<<>>}
    ELSE LET shorter == LabelSeqs(n - 1)
         IN  shorter \cup {Append(q, l) : q \in shorter, l \in MatchLabels}

Mappings ==
    {Dct([i \in 1..Len(q) |-> <<q[i], Str(q[i])>>]) :
        q \in {r \in LabelSeqs(MaxLabels) :
                  \A i, j \in 1..Len(r) : i # j => r[i] # r[j]}}

MaxSetOps == 2

MaxSetLabels == 2

S_Ab == <<"A", "b">>
S_ab == <<"a", "b">>
S_AB == <<"A", "B">>
S_Cd == <<"C", "d">>
S_cD == <<"c", "D">>

SetLabels == {S_Ab, S_ab, S_AB, S_Cd, S_cD}

RECURSIVE SetLabelSeqs(_)
SetLabelSeqs(n) ==
    IF n = 0 THEN {<<>>}
    ELSE LET shorter == SetLabelSeqs(n - 1)
         IN  shorter \cup {Append(q, l) : q \in shorter, l \in SetLabels}

\* the case variants of a sequence of labels, label by label
CaseVariants(q) ==
    {r \in SetLabelSeqs(MaxSetLabels) :
        /\ Len(r) = Len(q)
        /\ \A i \in 1..Len(q) : r[i] # q[i] /\ Lower(r[i]) = Lower(q[i])}

---------------------------------------------------------------------------
(* The state machine *)

NoRet == [kind |-> "none", exc |-> "", value |-> PyNone]
Return(value) == [kind |-> "return", exc |-> "", value |-> value]
Raise(exc) == [kind |-> "raise", exc |-> exc, value |-> PyNone]

Init ==
    /\ pc = "start"
    /\ ret = NoRet
    /\ ran = {}
    /\ mod = NewMod("RuledMod")
    /\ rules = NewBaseRules
    /\ op \in {"create_listed_mod", "from_xml", "create_base_rules",
               "match_version", "set"}
    /\ IF op = "create_listed_mod"
       THEN /\ mod_data \in RequiredDescriptors \cup SuspectedLudeonDescriptors
                              \cup CompleteDescriptors
            /\ target_version \in
                   IF mod_data \in CompleteDescriptors THEN TargetVersions ELSE {S_15}
       ELSE IF op = "from_xml"
       THEN /\ xml \in XmlOutcomes
            /\ mod_data \in IF xml = XmlOk THEN CompleteDescriptors ELSE {Blank}
            /\ target_version \in {S_15}
       ELSE IF op = "create_base_rules"
       THEN /\ mod_data \in RuleDescriptors
            /\ target_version \in TargetVersions
       ELSE /\ mod_data = Blank
            /\ target_version \in
                   IF op = "match_version" THEN TargetVersions \cup {S_14} ELSE {S_15}
    /\ IF op = "from_xml" THEN TRUE ELSE xml = XmlOk
    /\ IF op = "match_version"
       THEN mv_input \in Mappings /\ stop_at_first \in BOOLEAN
       ELSE mv_input = Dct(<<>>) /\ stop_at_first = FALSE
    /\ IF op = "set"
       THEN /\ clabels \in SetLabelSeqs(MaxSetLabels)
            /\ cset = CISetFrom(clabels)
            /\ \E variant \in CaseVariants(clabels) : cother = CISetFrom(variant)
       ELSE clabels = <<>> /\ cset = {} /\ cother = {}
    /\ csteps = 0

\* the try / except and the emptiness test of create_listed_mod_from_xml
XmlRaises(x) == x.raises \/ ~x.has_root

ModDataFalsy(x) == x.falsy

\* FromXmlFails without the "if not mod_data" test
FromXmlFails_NoEmptyTest(x) == XmlRaises(x)

FromXmlFails(x) == XmlRaises(x) \/ ModDataFalsy(x)

\* create_listed_mod_from_xml up to its call of create_listed_mod
FromXml ==
    /\ op = "from_xml" /\ pc = "start"
    /\ IF FromXmlFails(xml)
       THEN /\ ret' = Return([valid |-> FALSE, mod |-> InvalidListedMod])
            /\ pc' = "done"
            /\ UNCHANGED <<mod, ran>>
       ELSE /\ mod' = NewMod("RuledMod")
            /\ ran' = ran \cup {"_parse_required"}
            /\ pc' = "package_id"
            /\ UNCHANGED ret
    /\ UNCHANGED <<op, mod_data, target_version, xml, rules, mv_input,
                   stop_at_first, cset, cother, clabels, csteps>>

\* create_listed_mod: _parse_required(mod_data, RuledMod()) is entered
CreateListedMod ==
    /\ op = "create_listed_mod" /\ pc = "start"
    /\ mod' = NewMod("RuledMod")
    /\ ran' = ran \cup {"_parse_required"}
    /\ pc' = "package_id"
    /\ UNCHANGED <<op, mod_data, target_version, xml, ret, rules, mv_input,
                   stop_at_first, cset, cother, clabels, csteps>>

RequiredFrame ==
    UNCHANGED <<op, mod_data, target_version, xml, ret, ran, rules, mv_input,
                stop_at_first, cset, cother, clabels, csteps>>

\* _parse_required: packageId
ParsePackageId ==
    /\ pc = "package_id"
    /\ mod' = StepPackageId(mod_data, mod)
    /\ pc' = "ludeon"
    /\ RequiredFrame

\* _parse_required: the official-content upgrade
ParseLudeon ==
    /\ pc = "ludeon"
    /\ mod' = StepLudeon(mod_data, mod)
    /\ pc' = "name"
    /\ RequiredFrame

\* _parse_required: name
ParseName ==
    /\ pc = "name"
    /\ mod' = StepName(mod_data, mod)
    /\ pc' = "description"
    /\ RequiredFrame

\* _parse_required: description
ParseDescription ==
    /\ pc = "description"
    /\ mod' = StepDescription(mod_data, mod)
    /\ pc' = "authors"
    /\ RequiredFrame

\* _parse_required: author and authors
ParseAuthors ==
    /\ pc = "authors"
    /\ mod' = StepAuthors(mod_data, mod)
    /\ pc' = "supported_versions"
    /\ RequiredFrame

\* the last group; _parse_required then returns mod
ParseSupportedVersions ==
    /\ pc = "supported_versions"
    /\ IF SupportedVersionsRaises(mod_data)
       THEN /\ ret' = Raise("TypeError")
            /\ pc' = "done"
            /\ UNCHANGED mod
       ELSE /\ mod' = StepSupportedVersions(mod_data, mod)
            /\ pc' = "required_done"
            /\ UNCHANGED ret
    /\ UNCHANGED <<op, mod_data, target_version, xml, ran, rules, mv_input,
                   stop_at_first, cset, cother, clabels, csteps>>

\* create_listed_mod between its two calls
Rewrap ==
    /\ pc = "required_done"
    /\ mod' = AsRuledMod(mod)
    /\ ran' = ran \cup {"_parse_optional"}
    /\ pc' = "optional"
    /\ UNCHANGED <<op, mod_data, target_version, xml, ret, rules, mv_input,
                   stop_at_first, cset, cother, clabels, csteps>>

\* _parse_optional up to its call of create_base_rules
ParseOptionalFields ==
    /\ pc = "optional"
    /\ mod' = StepOptional(mod_data, mod)
    /\ rules' = NewBaseRules
    /\ ran' = ran \cup {"create_base_rules"}
    /\ pc' = "rules_deps"
    /\ UNCHANGED <<op, mod_data, target_version, xml, ret, mv_input,
                   stop_at_first, cset, cother, clabels, csteps>>

\* create_base_rules called on its own
CreateBaseRules ==
    /\ op = "create_base_rules" /\ pc = "start"
    /\ rules' = NewBaseRules
    /\ ran' = ran \cup {"create_base_rules"}
    /\ pc' = "rules_deps"
    /\ UNCHANGED <<op, mod_data, target_version, xml, mod, ret, mv_input,
                   stop_at_first, cset, cother, clabels, csteps>>

\* match_version unpacks target_version.split(".")[:2] before anything else
MatchVersionRaises(md, by_key, tv) ==
    CallsMatchVersion(md, by_key) /\ ~WellFormedTarget(tv)

RulesFrame ==
    UNCHANGED <<op, mod_data, target_version, xml, mod, ran, mv_input,
                stop_at_first, cset, cother, clabels, csteps>>

\* the dependency section of create_base_rules
RulesDependencies ==
    /\ pc = "rules_deps"
    /\ IF MatchVersionRaises(mod_data, "modDependenciesByVersion", target_version)
       THEN ret' = Raise("ValueError") /\ pc' = "done" /\ UNCHANGED rules
       ELSE /\ rules' = [rules EXCEPT !.dependencies =
                   DependencyLoop(ModDependencies(mod_data, target_version), 1, @)]
            /\ pc' = "rules_load_before"
            /\ UNCHANGED ret
    /\ RulesFrame

\* create_base_rules: rules.load_before
RulesLoadBefore ==
    /\ pc = "rules_load_before"
    /\ IF MatchVersionRaises(mod_data, "loadBeforeByVersion", target_version)
       THEN ret' = Raise("ValueError") /\ pc' = "done" /\ UNCHANGED rules
       ELSE LET built == load_operations(mod_data, "loadBefore", "loadBeforeByVersion",
                                          "forceLoadBefore", target_version)
            IN  IF built.kind = "raise"
                THEN ret' = Raise("TypeError") /\ pc' = "done" /\ UNCHANGED rules
                ELSE /\ rules' = [rules EXCEPT !.load_before = built.set]
                     /\ pc' = "rules_load_after"
                     /\ UNCHANGED ret
    /\ RulesFrame

\* create_base_rules: rules.load_after
RulesLoadAfter ==
    /\ pc = "rules_load_after"
    /\ IF MatchVersionRaises(mod_data, "loadAfterByVersion", target_version)
       THEN ret' = Raise("ValueError") /\ pc' = "done" /\ UNCHANGED rules
       ELSE LET built == load_operations(mod_data, "loadAfter", "loadAfterByVersion",
                                          "forceLoadAfter", target_version)
            IN  IF built.kind = "raise"
                THEN ret' = Raise("TypeError") /\ pc' = "done" /\ UNCHANGED rules
                ELSE /\ rules' = [rules EXCEPT !.load_after = built.set]
                     /\ pc' = "rules_incompatible"
                     /\ UNCHANGED ret
    /\ RulesFrame

\* create_base_rules: rules.incompatible_with
RulesIncompatible ==
    /\ pc = "rules_incompatible"
    /\ IF MatchVersionRaises(mod_data, "incompatibleWithByVersion", target_version)
       THEN ret' = Raise("ValueError") /\ pc' = "done" /\ UNCHANGED rules
       ELSE LET built == IncompatibleWith(mod_data, target_version)
            IN  IF built.kind = "raise"
                THEN ret' = Raise("TypeError") /\ pc' = "done" /\ UNCHANGED rules
                ELSE /\ rules' = [rules EXCEPT !.incompatible_with = built.set]
                     /\ pc' = "rules_return"
                     /\ UNCHANGED ret
    /\ RulesFrame

\* return rules, to a direct caller
CreateBaseRulesReturn ==
    /\ op = "create_base_rules" /\ pc = "rules_return"
    /\ ret' = Return(rules)
    /\ pc' = "done"
    /\ UNCHANGED <<op, mod_data, target_version, xml, mod, ran, rules, mv_input,
                   stop_at_first, cset, cother, clabels, csteps>>

\* the end of _parse_optional: mod.about_rules is assigned, then the function
\* raises NotImplementedError; nothing up to the caller of
\* create_listed_mod_from_xml catches it
ParseOptionalEnd ==
    /\ op # "create_base_rules" /\ pc = "rules_return"
    /\ mod' = [mod EXCEPT !.about_rules = rules]
    /\ ret' = Raise("NotImplementedError")
    /\ pc' = "done"
    /\ UNCHANGED <<op, mod_data, target_version, xml, ran, rules, mv_input,
                   stop_at_first, cset, cother, clabels, csteps>>

\* match_version(input, target_version, stop_at_first)
MatchVersion ==
    /\ op = "match_version" /\ pc = "start"
    /\ ret' = IF WellFormedTarget(target_version)
              THEN Return(match_version(mv_input, target_version, stop_at_first))
              ELSE Raise("ValueError")
    /\ pc' = "done"
    /\ UNCHANGED <<op, mod_data, target_version, xml, mod, ran, rules, mv_input,
                   stop_at_first, cset, cother, clabels, csteps>>

\* the labels a reader of the set would list: the earlier ones, then item
\* unless a case variant of it is already there
Listed(labels, item) ==
    IF \E i \in 1..Len(labels) : CaseInsensitiveEq(labels[i], item)
    THEN labels ELSE Append(labels, item)

Unlisted(labels, item) ==
    SelectSeq(labels, LAMBDA l : ~CaseInsensitiveEq(l, item))

\* cset.add(item); the other set is given a case variant of item
SetAdd ==
    /\ op = "set" /\ csteps < MaxSetOps
    /\ \E item \in SetLabels, variant \in SetLabels :
        /\ Lower(variant) = Lower(item)
        /\ cset' = CISetAdd(cset, item)
        /\ cother' = CISetAdd(cother, variant)
        /\ clabels' = Listed(clabels, item)
    /\ csteps' = csteps + 1
    /\ UNCHANGED <<op, pc, mod_data, target_version, xml, mod, ret, ran, rules,
                   mv_input, stop_at_first>>

\* cset.discard(item); the other set discards a case variant of item
SetDiscard ==
    /\ op = "set" /\ csteps < MaxSetOps
    /\ \E item \in SetLabels, variant \in SetLabels :
        /\ Lower(variant) = Lower(item)
        /\ cset' = CISetDiscard(cset, item)
        /\ cother' = CISetDiscard(cother, variant)
        /\ clabels' = Unlisted(clabels, item)
    /\ csteps' = csteps + 1
    /\ UNCHANGED <<op, pc, mod_data, target_version, xml, mod, ret, ran, rules,
                   mv_input, stop_at_first>>

Next ==
    \/ FromXml
    \/ CreateListedMod
    \/ ParsePackageId
    \/ ParseLudeon
    \/ ParseName
    \/ ParseDescription
    \/ ParseAuthors
    \/ ParseSupportedVersions
    \/ Rewrap
    \/ ParseOptionalFields
    \/ CreateBaseRules
    \/ RulesDependencies
    \/ RulesLoadBefore
    \/ RulesLoadAfter
    \/ RulesIncompatible
    \/ CreateBaseRulesReturn
    \/ ParseOptionalEnd
    \/ MatchVersion
    \/ SetAdd
    \/ SetDiscard

Spec == Init /\ [][Next]_vars

---------------------------------------------------------------------------
(* Properties *)

PackageIdNode == Field(mod_data, "packageId")

\* the descriptor of C1: identifier, name and description resolve to strings,
\* one string author, one supported version
CompleteDescriptor ==
    /\ IsStr(PackageIdNode)
    /\ IsStr(Field(mod_data, "name"))
    /\ IsStr(Field(mod_data, "description"))
    /\ IsStr(Field(mod_data, "author")) /\ Truthy(Field(mod_data, "author"))
    /\ IsStr(Field(mod_data, "supportedVersions"))

\* C1: for a complete descriptor and a well-formed target, create_listed_mod
\* (and create_listed_mod_from_xml on top of it) ends by returning
\* (valid, record) with valid = true = record.valid, not in an exception.
C1_ReturnsValidRecord ==
    (/\ op \in {"create_listed_mod", "from_xml"}
     /\ xml = XmlOk
     /\ pc = "done"
     /\ CompleteDescriptor
     /\ WellFormedTarget(target_version))
    => (/\ ret.kind = "return"
        /\ ret.value.valid = TRUE
        /\ ret.value.valid = ret.value.mod.valid)

\* C2: when the deserializer raises, the root has no ModMetaData entry or the
\* entry is empty, create_listed_mod_from_xml returns (False, ListedMod with
\* valid = False) without raising and without entering either builder.
C2_XmlFailureReturnsInvalid ==
    (op = "from_xml" /\ (xml.raises \/ ~xml.has_root \/ xml.falsy))
    => (/\ ran = {}
        /\ pc \in {"start", "done"}
        /\ pc = "done" =>
              (/\ ret.kind = "return"
               /\ ret.value.valid = FALSE
               /\ ret.value.mod.cls = "ListedMod"
               /\ ret.value.mod.valid = FALSE))

C2_Witness ==
    /\ op = "from_xml" /\ pc = "done"
    /\ ~xml.raises /\ xml.has_root /\ xml.falsy
    /\ ret.kind = "return" /\ ret.value.valid = FALSE

\* C3: a descriptor whose packageId is a key of the official-content table
\* yields a LudeonMod with the table's app id, the table's name and
\* description, and valid = true, whatever its other fields are.
C3_OfficialContentFromTable ==
    (/\ pc = "required_done"
     /\ IsStr(PackageIdNode)
     /\ InDlcMap(PackageIdNode.v))
    => LET appid == DlcAppId(PackageIdNode.v)
       IN  /\ mod.cls = "LudeonMod"
           /\ mod.steam_app_id = PyInt(ParseInt(appid))
           /\ mod.name = RIMWORLD_DLC_METADATA[appid].name
           /\ mod.description = RIMWORLD_DLC_METADATA[appid].description
           /\ mod.valid = TRUE

\* C4: with no name that resolves to a string and a packageId string p that is
\* not official content, the record's name is p in p's original casing and
\* valid = false.
C4_NameDefaultsToPackageId ==
    (/\ pc = "required_done"
     /\ ~IsStr(Field(mod_data, "name"))
     /\ IsStr(PackageIdNode)
     /\ ~IsLudeonMod(mod))
    => (mod.name = PackageIdNode.v /\ mod.valid = FALSE)

\* the identifiers listed under a node, case-folded
ListedIds(node) ==
    LET x == value_extractor(node)
    IN  IF IsStr(x) THEN {Lower(x.v)}
        ELSE IF IsList(x)
        THEN {Lower(x.v[i].v) : i \in {j \in 1..Len(x.v) : IsStr(x.v[j])}}
        ELSE {}

\* label starts with "v" + major + "." + minor of the target
HasVersionPrefix(label, tv) ==
    LET parts == Split(tv, ".")
        prefix == <<"v">> \o parts[1] \o <<".">> \o parts[2]
    IN  /\ Len(label) >= Len(prefix)
        /\ \A i \in 1..Len(prefix) : label[i] = prefix[i]

\* loadX, every matching label of loadXByVersion, and forceLoadX, as one set
ListedLoad(md, key, by_key, force_key, tv) ==
    LET versioned == Get(md, by_key, Dct(<<>>))
        matching == IF IsDict(versioned)
                    THEN {i \in 1..Len(versioned.v) :
                             HasVersionPrefix(versioned.v[i][1], tv)}
                    ELSE {}
    IN  ListedIds(Get(md, key, Lst(<<>>)))
            \cup UNION {ListedIds(versioned.v[i][2]) : i \in matching}
            \cup ListedIds(Get(md, force_key, Lst(<<>>)))

\* C5: the load_before (load_after) set create_base_rules returns is, case
\* folded, the union of the identifiers under loadBefore, under every
\* loadBeforeByVersion label starting with "v" + major.minor, and under
\* forceLoadBefore (likewise for loadAfter).
C5_LoadSetsAreTheUnion ==
    (/\ op = "create_base_rules" /\ pc = "done"
     /\ WellFormedTarget(target_version)
     /\ ret.kind = "return")
    => (/\ ret.value.load_before =
              ListedLoad(mod_data, "loadBefore", "loadBeforeByVersion",
                         "forceLoadBefore", target_version)
        /\ ret.value.load_after =
              ListedLoad(mod_data, "loadAfter", "loadAfterByVersion",
                         "forceLoadAfter", target_version))

\* the folded packageId of a dependency entry, or none
EntryId(entry) ==
    IF DictHas(entry, K_packageId) /\ IsStr(DictGet(entry, K_packageId))
    THEN Str(Lower(DictGet(entry, K_packageId).v))
    ELSE PyNone

DependenciesBuilt ==
    /\ WellFormedTarget(target_version)
    /\ pc \in {"rules_load_before", "rules_load_after", "rules_incompatible",
              "rules_return"}
       \/ (op = "create_base_rules" /\ pc = "done" /\ ret.kind = "return")

C7_SetIsCaseFoldInvariant ==
    op = "set" =>
        /\ \A x \in SetLabels :
               CISetContains(cset, x)
                   <=> \E i \in 1..Len(clabels) : Lower(clabels[i]) = Lower(x)
        /\ CISetLen(cset) = Cardinality({Lower(clabels[i]) : i \in 1..Len(clabels)})
        /\ \A x \in SetLabels :
               CISetContains(cset, x) => CISetLen(CISetAdd(cset, x)) = CISetLen(cset)
        /\ \A x, y \in SetLabels :
               Lower(x) = Lower(y) => ~CISetContains(CISetDiscard(cset, x), y)
        /\ cset = cother
        /\ \A q \in SetLabelSeqs(MaxSetLabels) :
               CISetAnd(cset, CISetFrom(q)) = CISetAnd(cother, CISetFrom(q))

C7_Witness ==
    /\ op = "set" /\ csteps = MaxSetOps
    /\ clabels = <<S_Cd>>
    /\ CISetContains(cset, S_cD) /\ ~CISetContains(cset, S_AB)
    /\ CISetLen(cset) = 1

\* the fields of C8 that did not resolve to their required shape
UnresolvedRequired ==
    \/ ~IsStr(PackageIdNode)
    \/ ~IsStr(Field(mod_data, "name"))
    \/ ~IsStr(Field(mod_data, "description"))
    \/ ~(IsStr(Field(mod_data, "author")) \/ IsList(Field(mod_data, "authors")))
    \/ ~(IsStr(Field(mod_data, "supportedVersions"))
         \/ IsList(Field(mod_data, "supportedVersions")))

\* the valid flag starts true and, once false, is never true again
ValidMonotone ==
    /\ [](pc = "package_id" => mod.valid = TRUE)
    /\ [][mod.valid = FALSE => mod'.valid = FALSE]_vars

\* a record that does not end as official content is invalid whenever one of
\* the required fields did not resolve
UnresolvedFieldInvalidates ==
    (pc = "required_done" /\ ~IsLudeonMod(mod) /\ UnresolvedRequired)
    => mod.valid = FALSE

\* C8: during _parse_required the valid flag starts true and only ever goes
\* from true to false, and a record that does not end as official content is
\* invalid whenever one of packageId, name, description, authors or
\* supportedVersions did not resolve to its required shape.
C8_ValidFlag == ValidMonotone /\ []UnresolvedFieldInvalidates

\* the names under an extracted authors value
AuthorNames(x) == IF IsStr(x) THEN <<x>> ELSE IF IsList(x) THEN x.v ELSE <<>>

\* C9: the authors list is the string author (if any) followed by the names
\* under authors, one element per name, for every shape authors can take.
C9_AuthorsConcatenated ==
    (pc = "required_done" /\ ~IsDict(Field(mod_data, "authors")))
    => mod.authors =
           (IF IsStr(Field(mod_data, "author"))
            THEN <<Field(mod_data, "author")>> ELSE <<>>)
               \o AuthorNames(Field(mod_data, "authors"))

\* C10: match_version finds a match iff some label starts with
\* "v" + major + "." + minor; collect-all returns the nodes of all matching
\* labels in order, stop-at-first the first of them alone, no match (False, None).
C10_MatchVersion ==
    (op = "match_version" /\ pc = "done" /\ WellFormedTarget(target_version))
    => LET matched == SelectSeq(mv_input.v,
                                LAMBDA it : HasVersionPrefix(it[1], target_version))
           nodes == [k \in 1..Len(matched) |-> matched[k][2]]
       IN  /\ ret.kind = "return"
           /\ ret.value.found = (matched # <<>>)
           /\ ret.value.values =
                  IF matched = <<>> THEN PyNone
                  ELSE IF stop_at_first THEN Lst(<<nodes[1]>>)
                  ELSE Lst(nodes)

C10_Witness ==
    /\ op = "match_version" /\ pc = "done"
    /\ target_version = S_152 /\ ~stop_at_first
    /\ mv_input = Dct(<< <<L_v14, Str(L_v14)>>, <<L_v15x, Str(L_v15x)>>,
                         <<L_v15, Str(L_v15)>> >>)
    /\ ret.value = [found |-> TRUE, values |-> Lst(<<Str(L_v15x), Str(L_v15)>>)]

====
